---- MODULE Spec2Model ----
(***************************************************************************)
(* Finality proof request/response behaviour                               *)
(* (client/network/src/finality_requests.rs).                              *)
(*                                                                         *)
(* Two peers run the behaviour `FinalityProofRequests`; each owns a        *)
(* configuration, an optional finality proof provider, the queue           *)
(* `pending_events` and the pool `outgoing`.  Substreams between them are  *)
(* driven by the upgrades `OutboundProtocol` and `InboundProtocol`.  A     *)
(* third, foreign peer may open substreams and write arbitrary frames.     *)
(***************************************************************************)
EXTENDS Integers, Sequences, FiniteSets, TLC

VARIABLES
    finality_proof_provider, \* peer -> BOOLEAN: Option<Arc<dyn FinalityProofProvider>>::is_some
    pending_events,          \* peer -> VecDeque<NetworkBehaviourAction>
    outgoing,                \* peer -> FuturesUnordered of response writes
    streams,                 \* one record per send_request call / foreign substream
    returned                 \* peer -> what successive poll calls returned as Ready

vars == <<finality_proof_provider, pending_events, outgoing, streams, returned>>

-----------------------------------------------------------------------------
(* Bounds and input sets *)

\* Number of send_request calls and foreign substreams over a run.
MaxRequests == 2

\* Peers that run the behaviour.
Peers == {"a", "b"}

\* A connected remote that does not run this code and writes what it likes.
ForeignPeer == "x"

\* A peer id no connection exists to.
UnreachablePeer == "u"

\* Width of the chain's block hash in bytes (B::Hash, fixed width).
HashLen == 1

BlockHashes == {<<1>>, <<2>>}

\* Opaque request payloads handed to send_request.
RequestPayloads == {<<>>, <<9>>, <<9, 9, 9, 9, 9, 9>>}

\* Room a fresh Vec offers prost's `encode` (BufMut::remaining_mut), scaled.
VecRemaining == 8

\* What `prove_finality` may answer.
ProveOutcomes ==
    { [kind |-> "some", proof |-> <<1, 2, 3>>],
      [kind |-> "some", proof |-> <<>>],
      [kind |-> "some", proof |-> <<7, 7, 7, 7, 7, 7, 7, 7>>],
      [kind |-> "none", proof |-> <<>>],
      [kind |-> "err",  proof |-> <<>>] }

\* Frames a foreign peer may write: an empty message (block hash of length 0)
\* and a declared length of 9 with a truncated field behind it.
ForeignFrames == { <<0>>, <<9, 10, 5, 1>> }

-----------------------------------------------------------------------------
(* Config *)

\* Config::set_protocol: "/" + id + "/finality-proof/1"
set_protocol(id) == <<"/", id, "/finality-proof/1">>

ChainId == "sup"

\* Config::new: 1 MiB request and response limits.
ConfigNew(id) ==
    [ max_request_len  |-> 1024 * 1024,
      max_response_len |-> 1024 * 1024,
      protocol         |-> set_protocol(id) ]

set_max_request_len(c, v) == [c EXCEPT !.max_request_len = v]

set_max_response_len(c, v) == [c EXCEPT !.max_response_len = v]

\* The configuration each peer was constructed with: "a" keeps the defaults,
\* "b" lowers both limits.
config(n) ==
    IF n = "a" THEN ConfigNew(ChainId)
    ELSE set_max_response_len(set_max_request_len(ConfigNew(ChainId), 5), 4)

-----------------------------------------------------------------------------
(* Wire schema: protobuf (proto3) messages with `bytes` fields *)

Err == [ok |-> FALSE, f1 |-> <<>>, f2 |-> <<>>]

\* One `bytes` field: key, length, value; a default (empty) value is not written.
EncodeField(key, b) == IF b = <<>> THEN <<>> ELSE <<key, Len(b)>> \o b

\* Mutant: the two fields are written under each other's tag.
EncodeRequestBytes_swapped(block_hash, request) ==
    EncodeField(18, block_hash) \o EncodeField(10, request)

\* FinalityProofRequest { block_hash = 1; request = 2 }
EncodeRequestBytes(block_hash, request) ==
    EncodeField(10, block_hash) \o EncodeField(18, request)

\* FinalityProofResponse { proof = 1 }
EncodeResponseBytes(proof) == EncodeField(10, proof)

\* prost Message::encode into a fresh Vec: fails when the buffer has less room
\* than encoded_len.
Encode(bytes) ==
    IF Len(bytes) > VecRemaining
    THEN [ok |-> FALSE, buf |-> <<>>]
    ELSE [ok |-> TRUE, buf |-> bytes]

\* prost Message::decode: fields in any order, the last occurrence wins, unknown
\* fields are skipped, a known field with another wire type is an error.
RECURSIVE MergeFields(_, _, _)
MergeFields(buf, msg, known) ==
    IF buf = <<>> THEN msg
    ELSE LET key   == buf[1]
             field == key \div 8
             wire  == key % 8
         IN  IF field < 1 THEN Err
             ELSE IF wire = 2 THEN
                 IF Len(buf) < 2 \/ Len(buf) - 2 < buf[2] THEN Err
                 ELSE LET val  == SubSeq(buf, 3, 2 + buf[2])
                          rest == SubSeq(buf, 3 + buf[2], Len(buf))
                      IN  MergeFields(rest,
                              IF field = 1 /\ 1 \in known THEN [msg EXCEPT !.f1 = val]
                              ELSE IF field = 2 /\ 2 \in known THEN [msg EXCEPT !.f2 = val]
                              ELSE msg,
                              known)
             ELSE IF wire = 0 /\ field \notin known THEN
                 IF Len(buf) < 2 THEN Err
                 ELSE MergeFields(SubSeq(buf, 3, Len(buf)), msg, known)
             ELSE Err

DecodeRequest(buf) ==
    LET m == MergeFields(buf, [ok |-> TRUE, f1 |-> <<>>, f2 |-> <<>>], {1, 2})
    IN  [ok |-> m.ok, block_hash |-> m.f1, request |-> m.f2]

DecodeResponse(buf) ==
    LET m == MergeFields(buf, [ok |-> TRUE, f1 |-> <<>>, f2 |-> <<>>], {1})
    IN  [ok |-> m.ok, proof |-> m.f1]

\* block_hash.encode(): a fixed-width hash encodes as its bytes.
EncodeHash(h) == h

\* Decode::decode for B::Hash: takes HashLen bytes, fails on fewer.
DecodeHash(bytes) ==
    IF Len(bytes) < HashLen
    THEN [ok |-> FALSE, hash |-> <<>>]
    ELSE [ok |-> TRUE, hash |-> SubSeq(bytes, 1, HashLen)]

-----------------------------------------------------------------------------
(* Framing: write_one / read_one *)

\* write_one: the length, then the data.
write_one(data) == <<Len(data)>> \o data

\* read_one(socket, max): a length above max aborts the read; an end of stream
\* before any byte reads as an empty message; a short body is an error.
read_one(wire, max) ==
    IF wire = <<>> THEN [ok |-> TRUE, vec |-> <<>>]
    ELSE IF wire[1] > max THEN [ok |-> FALSE, vec |-> <<>>]
    ELSE IF Len(wire) - 1 < wire[1] THEN [ok |-> FALSE, vec |-> <<>>]
    ELSE [ok |-> TRUE, vec |-> SubSeq(wire, 2, 1 + wire[1])]

-----------------------------------------------------------------------------
(* Values *)

\* Option<T>: None is the empty set, Some(x) the singleton.
None == {}

Some(x) == {x}

\* Mutant: the response limit is taken from the request limit.
OutboundProtocol_request_len(n, block_hash, buf) ==
    [ request           |-> buf,
      block_hash        |-> block_hash,
      max_response_size |-> config(n).max_request_len,
      protocol          |-> config(n).protocol ]

\* OutboundProtocol, as send_request builds it.
OutboundProtocol(n, block_hash, buf) ==
    [ request           |-> buf,
      block_hash        |-> block_hash,
      max_response_size |-> config(n).max_response_len,
      protocol          |-> config(n).protocol ]

\* What a foreign dialer brings: the protocol name and the bytes it will write.
ForeignDial(n, frame) ==
    [ request           |-> frame,
      block_hash        |-> <<>>,
      max_response_size |-> 0,
      protocol          |-> config(n).protocol ]

NoUpgrade == [request |-> <<>>, block_hash |-> <<>>, max_response_size |-> 0, protocol |-> <<>>]

\* NetworkBehaviourAction::NotifyHandler { peer_id, handler: Any, event }
NotifyHandler(target, event, sid) ==
    [type |-> "NotifyHandler", peer_id |-> target, handler |-> "Any", event |-> event, sid |-> sid]

\* Event::Response { peer, block_hash, proof }
EventResponse(peer, block_hash, proof) ==
    [variant |-> "Response", peer |-> peer, block_hash |-> block_hash, proof |-> proof]

\* NetworkBehaviourAction::GenerateEvent(ev)
GenerateEvent(ev, sid) == [type |-> "GenerateEvent", ev |-> ev, sid |-> sid]

NotAsked == [kind |-> "not_asked", proof |-> <<>>]

\* A substream with the call that led to it; `sid` in queue entries and futures
\* is its index in `streams`.
NewStream(from, to, stage, block_hash, request, upgrade) ==
    [ from       |-> from,
      to         |-> to,
      stage      |-> stage,
      block_hash |-> block_hash,     \* as passed to send_request
      payload    |-> request,        \* as passed to send_request
      upgrade    |-> upgrade,        \* the OutboundProtocol the handler runs
      wire_out   |-> <<>>,           \* bytes the dialer wrote
      wire_in    |-> <<>>,           \* bytes the listener wrote
      n_requests |-> 0,              \* Request messages written on it
      n_responses|-> 0,              \* Response writes scheduled on it
      handled    |-> 0,              \* position among the requests `to` has handled
      request    |-> [block_hash |-> <<>>, request |-> <<>>],  \* NodeEvent::Request
      asked      |-> [block_hash |-> <<>>, request |-> <<>>],  \* prove_finality's arguments
      answer     |-> NotAsked,       \* prove_finality's result
      response   |-> [proof |-> <<>>, block_hash |-> <<>>] ]   \* NodeEvent::Response

\* The peers n holds a connection to.
Connected(n) == (Peers \ {n}) \cup {ForeignPeer}

\* The peer ids n's caller may name as the target of a request.
SendTargets(n) == (Peers \ {n}) \cup {UnreachablePeer}

-----------------------------------------------------------------------------
(* Proof-of-existence pallet (pallets/poe/src/lib.rs) *)

VARIABLES
    Proofs,          \* storage map Vec<u8> => (AccountId, BlockNumber), as its entries
    block_number,    \* system::Module::block_number()
    events,          \* events deposited in the current block
    dispatch_result  \* what the last dispatchable call returned

poe_vars == <<Proofs, block_number, events, dispatch_result>>

\* Accounts that sign extrinsics.
Accounts == {"alice", "bob"}

\* An origin that is not signed.
RootOrigin == "root"

Origins == Accounts \cup {RootOrigin}

\* Block numbers the runs go through.
MaxBlock == 3

\* Extrinsics that deposit an event, per block.
MaxEvents == 1

\* const MAX_PROOF_SIZE: usize = 9
MAX_PROOF_SIZE == 9

\* k bytes of value b.
Bytes(k, b) == [i \in 1..k |-> b]

\* Proofs submitted: short, of the largest size, and one byte beyond it.
ProofInputs == {<<2>>, Bytes(MAX_PROOF_SIZE, 1), Bytes(MAX_PROOF_SIZE + 1, 1)}

\* ensure_signed(origin)
ensure_signed(origin) ==
    IF origin \in Accounts THEN [ok |-> TRUE, sender |-> origin]
    ELSE [ok |-> FALSE, sender |-> origin]

\* StorageMap::contains_key
contains_key(map, key) == \E e \in map : e.key = key

\* StorageMap::get on a key that is present.
get(map, key) == (CHOOSE e \in map : e.key = key).value

\* StorageMap::insert: the value stored under the key is replaced.
insert(map, key, value) ==
    {e \in map : e.key # key} \cup {[key |-> key, value |-> value]}

\* StorageMap::remove
remove(map, key) == {e \in map : e.key # key}

\* A dispatchable that returns an error: nothing written, nothing deposited.
Fail(error) ==
    /\ dispatch_result' = error
    /\ UNCHANGED <<Proofs, block_number, events>>

\* Mutant: the size check is off by one.
ProofFits_off_by_one(proof) == Len(proof) <= MAX_PROOF_SIZE + 1

\* ensure!(proof.len() <= MAX_PROOF_SIZE, ...)
ProofFits(proof) == Len(proof) <= MAX_PROOF_SIZE

create_claim(origin, proof) ==
    LET signed == ensure_signed(origin)
    IN  IF ~signed.ok THEN Fail("BadOrigin")
        ELSE IF ~ProofFits(proof) THEN Fail("ProofTooLarge")
        ELSE IF contains_key(Proofs, proof) THEN Fail("ProofAlreadyClaimed")
        ELSE /\ Len(events) < MaxEvents
             /\ Proofs' = insert(Proofs, proof, <<signed.sender, block_number>>)
             /\ events' = Append(events, <<"ClaimCreated", signed.sender, proof>>)
             /\ dispatch_result' = "Ok"
             /\ UNCHANGED block_number

\* Mutant: the owner check is left out.
IsOwner_anyone(sender, owner) == TRUE

\* ensure!(sender == owner, ...)
IsOwner(sender, owner) == sender = owner

revoke_claim(origin, proof) ==
    LET signed == ensure_signed(origin)
    IN  IF ~signed.ok THEN Fail("BadOrigin")
        ELSE IF ~contains_key(Proofs, proof) THEN Fail("NoSuchProof")
        ELSE IF ~IsOwner(signed.sender, get(Proofs, proof)[1]) THEN Fail("NotProofOwner")
        ELSE /\ Len(events) < MaxEvents
             /\ Proofs' = remove(Proofs, proof)
             /\ events' = Append(events, <<"ClaimRevoked", signed.sender, proof>>)
             /\ dispatch_result' = "Ok"
             /\ UNCHANGED block_number

transfer_claim(origin, proof, receiver) ==
    LET signed == ensure_signed(origin)
    IN  IF ~signed.ok THEN Fail("BadOrigin")
        ELSE IF ~contains_key(Proofs, proof) THEN Fail("NoSuchProof")
        ELSE IF ~IsOwner(signed.sender, get(Proofs, proof)[1]) THEN Fail("NotProofOwner")
        ELSE /\ Len(events) < MaxEvents
             /\ Proofs' = insert(Proofs, proof, <<receiver, block_number>>)
             /\ events' = Append(events,
                    <<"ClaimTransferred", signed.sender, proof, receiver>>)
             /\ dispatch_result' = "Ok"
             /\ UNCHANGED block_number

\* The next block begins: the block number advances and the events of the
\* previous block are cleared.
next_block ==
    /\ block_number < MaxBlock
    /\ block_number' = block_number + 1
    /\ events' = <<>>
    /\ UNCHANGED <<Proofs, dispatch_result>>

PoeInit ==
    /\ Proofs = {}
    /\ block_number = 1
    /\ events = <<>>
    /\ dispatch_result = "none"

PoeNext ==
    \/ \E origin \in Origins : \E proof \in ProofInputs :
           create_claim(origin, proof) /\ UNCHANGED vars
    \/ \E origin \in Origins : \E proof \in ProofInputs :
           revoke_claim(origin, proof) /\ UNCHANGED vars
    \/ \E origin \in Origins : \E proof \in ProofInputs : \E receiver \in Accounts :
           transfer_claim(origin, proof, receiver) /\ UNCHANGED vars
    \/ next_block /\ UNCHANGED vars

-----------------------------------------------------------------------------
Init ==
    /\ finality_proof_provider \in [Peers -> BOOLEAN]
    /\ pending_events = [n \in Peers |-> <<>>]
    /\ outgoing = [n \in Peers |-> {}]
    /\ streams = <<>>
    /\ returned = [n \in Peers |-> <<>>]
    /\ PoeInit

-----------------------------------------------------------------------------
(* FinalityProofRequests::send_request *)

\* Mutant: the encode error is logged but the call goes on to enqueue.
send_request_no_return(n, target, block_hash, request) ==
    /\ Len(streams) < MaxRequests
    /\ LET sid == Len(streams) + 1
           enc == Encode(EncodeRequestBytes(EncodeHash(block_hash), request))
       IN  /\ pending_events' = [pending_events EXCEPT ![n] =
                   Append(@, NotifyHandler(target, OutboundProtocol(n, block_hash, enc.buf), sid))]
           /\ streams' = Append(streams,
                   NewStream(n, target, IF enc.ok THEN "queued" ELSE "encode_failed",
                             block_hash, request, NoUpgrade))
    /\ UNCHANGED <<finality_proof_provider, outgoing, returned>>

send_request(n, target, block_hash, request) ==
    /\ Len(streams) < MaxRequests
    /\ LET sid == Len(streams) + 1
           enc == Encode(EncodeRequestBytes(EncodeHash(block_hash), request))
       IN  IF ~enc.ok
           THEN /\ streams' = Append(streams,
                        NewStream(n, target, "encode_failed", block_hash, request, NoUpgrade))
                /\ UNCHANGED pending_events
           ELSE /\ pending_events' = [pending_events EXCEPT ![n] =
                        Append(@, NotifyHandler(target, OutboundProtocol(n, block_hash, enc.buf), sid))]
                /\ streams' = Append(streams,
                        NewStream(n, target, "queued", block_hash, request, NoUpgrade))
    /\ UNCHANGED <<finality_proof_provider, outgoing, returned>>

-----------------------------------------------------------------------------
(* FinalityProofRequests::poll, with what the swarm does with its result *)

\* The swarm hands a NotifyHandler to a handler of the peer, which opens a
\* fresh substream for it; without a connection the action is dropped.
Dispatch(st, action) ==
    IF action.peer_id \in Connected(st.from)
    THEN [st EXCEPT !.stage = "opening", !.upgrade = action.event]
    ELSE [st EXCEPT !.stage = "undeliverable"]

\* A response write of the pool that completes: write_one on the substream.
CompleteWrite(st, data, io_ok) ==
    IF io_ok
    THEN [st EXCEPT !.stage = "response_written", !.wire_in = write_one(data)]
    ELSE [st EXCEPT !.stage = "write_failed"]

\* Mutant: the queue is popped at its back.
pop_back(queue) == [ev |-> queue[Len(queue)], rest |-> SubSeq(queue, 1, Len(queue) - 1)]

\* VecDeque::pop_front on a queue that is not empty.
pop_front(queue) == [ev |-> Head(queue), rest |-> Tail(queue)]

\* Mutant: the pool completes its writes in the order they were pushed.
poll_in_order(n) ==
    IF pending_events[n] # <<>>
    THEN LET ev == pop_front(pending_events[n]).ev
         IN  /\ pending_events' = [pending_events EXCEPT ![n] = pop_front(@).rest]
             /\ returned' = [returned EXCEPT ![n] = Append(@, ev)]
             /\ streams' = [streams EXCEPT ![ev.sid] =
                    IF ev.type = "NotifyHandler" THEN Dispatch(@, ev)
                    ELSE [@ EXCEPT !.stage = "delivered"]]
             /\ UNCHANGED <<finality_proof_provider, outgoing>>
    ELSE \E done \in SUBSET outgoing[n] : \E failed \in SUBSET done :
             /\ \A f \in done : \A g \in outgoing[n] :
                    streams[g.stream].handled < streams[f.stream].handled => g \in done
             /\ outgoing' = [outgoing EXCEPT ![n] = @ \ done]
             /\ streams' = [s \in DOMAIN streams |->
                    IF \E f \in done : f.stream = s
                    THEN LET f == CHOOSE g \in done : g.stream = s
                         IN  CompleteWrite(streams[s], f.data, f \notin failed)
                    ELSE streams[s]]
             /\ UNCHANGED <<finality_proof_provider, pending_events, returned>>

\* Mutant: poll returns Pending without polling the pool.
poll_never_drains(n) ==
    IF pending_events[n] # <<>>
    THEN LET ev == pop_front(pending_events[n]).ev
         IN  /\ pending_events' = [pending_events EXCEPT ![n] = pop_front(@).rest]
             /\ returned' = [returned EXCEPT ![n] = Append(@, ev)]
             /\ streams' = [streams EXCEPT ![ev.sid] =
                    IF ev.type = "NotifyHandler" THEN Dispatch(@, ev)
                    ELSE [@ EXCEPT !.stage = "delivered"]]
             /\ UNCHANGED <<finality_proof_provider, outgoing>>
    ELSE UNCHANGED vars

poll(n) ==
    IF pending_events[n] # <<>>
    THEN LET ev == pop_front(pending_events[n]).ev
         IN  /\ pending_events' = [pending_events EXCEPT ![n] = pop_front(@).rest]
             /\ returned' = [returned EXCEPT ![n] = Append(@, ev)]
             /\ streams' = [streams EXCEPT ![ev.sid] =
                    IF ev.type = "NotifyHandler" THEN Dispatch(@, ev)
                    ELSE [@ EXCEPT !.stage = "delivered"]]
             /\ UNCHANGED <<finality_proof_provider, outgoing>>
    ELSE \E done \in SUBSET outgoing[n] : \E failed \in SUBSET done :
             /\ outgoing' = [outgoing EXCEPT ![n] = @ \ done]
             /\ streams' = [s \in DOMAIN streams |->
                    IF \E f \in done : f.stream = s
                    THEN LET f == CHOOSE g \in done : g.stream = s
                         IN  CompleteWrite(streams[s], f.data, f \notin failed)
                    ELSE streams[s]]
             /\ UNCHANGED <<finality_proof_provider, pending_events, returned>>

-----------------------------------------------------------------------------
(* Handlers and upgrade negotiation *)

\* Mutant: the handler advertises the protocol whether or not a provider exists.
new_handler_always(n) ==
    [ max_request_len |-> config(n).max_request_len,
      protocol        |-> Some(config(n).protocol) ]

\* NetworkBehaviour::new_handler: the InboundProtocol of the handler.
new_handler(n) ==
    [ max_request_len |-> config(n).max_request_len,
      protocol        |-> IF finality_proof_provider[n]
                          THEN Some(config(n).protocol)
                          ELSE None ]

\* Mutant: a handler without protocol falls back to the default identifier.
inbound_protocol_info_default(p) ==
    IF p.protocol = None THEN {set_protocol(ChainId)} ELSE p.protocol

\* UpgradeInfo for InboundProtocol: Option::into_iter.
inbound_protocol_info(p) == p.protocol

\* Mutant: the dialer proposes another protocol version than listeners accept.
outbound_protocol_info_v2(p) == {<<"/", ChainId, "/finality-proof/2">>}

\* UpgradeInfo for OutboundProtocol: iter::once.
outbound_protocol_info(p) == {p.protocol}

\* Protocol negotiation on a fresh substream: the dialer proposes, the listener
\* accepts what its handler advertises.
Negotiate(s) ==
    /\ streams[s].stage = "opening"
    /\ LET offered == inbound_protocol_info(new_handler(streams[s].to))
           wanted  == outbound_protocol_info(streams[s].upgrade)
       IN  streams' = [streams EXCEPT ![s].stage =
               IF wanted \cap offered # {} THEN "negotiated" ELSE "refused"]
    /\ UNCHANGED <<finality_proof_provider, pending_events, outgoing, returned>>

\* A foreign peer dials n and will write `frame` once the protocol is agreed.
ForeignOpen(n, frame) ==
    /\ Len(streams) < MaxRequests
    /\ streams' = Append(streams,
           NewStream(ForeignPeer, n, "opening", <<>>, <<>>, ForeignDial(n, frame)))
    /\ UNCHANGED <<finality_proof_provider, pending_events, outgoing, returned>>

ForeignWrite(s) ==
    /\ streams[s].stage = "negotiated"
    /\ streams[s].from = ForeignPeer
    /\ streams' = [streams EXCEPT ![s].stage = "request_sent",
                                  ![s].wire_out = streams[s].upgrade.request]
    /\ UNCHANGED <<finality_proof_provider, pending_events, outgoing, returned>>

-----------------------------------------------------------------------------
(* OutboundUpgrade for OutboundProtocol: upgrade_outbound *)

\* First half: write_one(&mut s, &self.request); the write fails when the
\* connection is lost.
upgrade_outbound_write(s) ==
    /\ streams[s].stage = "negotiated"
    /\ streams[s].from \in Peers
    /\ \E io_ok \in BOOLEAN :
           streams' = [streams EXCEPT ![s] =
               IF io_ok
               THEN [@ EXCEPT !.stage = "request_sent",
                              !.wire_out = @ \o write_one(streams[s].upgrade.request),
                              !.n_requests = @ + 1]
               ELSE [@ EXCEPT !.stage = "disconnected"]]
    /\ UNCHANGED <<finality_proof_provider, pending_events, outgoing, returned>>

\* Mutant: the response is paired with the hash of the latest request issued.
OutboundResult_latest_hash(p, wire) ==
    LET vec == read_one(wire, p.max_response_size)
        r   == DecodeResponse(vec.vec)
    IN  IF ~vec.ok \/ ~r.ok
        THEN [ok |-> FALSE, response |-> [proof |-> <<>>, block_hash |-> <<>>]]
        ELSE [ok |-> TRUE, response |-> [proof |-> r.proof,
                                         block_hash |-> streams[Len(streams)].block_hash]]

\* Second half, on the bytes the read finds: read_one bounded by
\* max_response_size, decode, and the NodeEvent::Response with self.block_hash.
OutboundResult(p, wire) ==
    LET vec == read_one(wire, p.max_response_size)
        r   == DecodeResponse(vec.vec)
    IN  IF ~vec.ok \/ ~r.ok
        THEN [ok |-> FALSE, response |-> [proof |-> <<>>, block_hash |-> <<>>]]
        ELSE [ok |-> TRUE, response |-> [proof |-> r.proof, block_hash |-> p.block_hash]]

\* Stages in which the listener has let go of the substream without writing.
Abandoned == {"inbound_failed", "request_dropped"}

\* The read completes: on the response written, or, when the listener let go of
\* the substream, on an end of stream or on a reset, as the muxer signals it.
upgrade_outbound_read(s) ==
    /\ streams[s].from \in Peers
    /\ streams[s].stage \in {"response_written", "write_failed"} \cup Abandoned
    /\ \E how \in {"data", "eof", "reset"} :
           /\ how = "data" <=> streams[s].stage = "response_written"
           /\ streams[s].stage = "write_failed" => how = "reset"
           /\ LET res == OutboundResult(streams[s].upgrade, streams[s].wire_in)
              IN  streams' = [streams EXCEPT ![s] =
                      IF how = "reset" THEN [@ EXCEPT !.stage = "disconnected"]
                      ELSE IF res.ok
                      THEN [@ EXCEPT !.stage = "response_event", !.response = res.response]
                      ELSE [@ EXCEPT !.stage = "outbound_failed"]]
    /\ UNCHANGED <<finality_proof_provider, pending_events, outgoing, returned>>

-----------------------------------------------------------------------------
(* InboundUpgrade for InboundProtocol: upgrade_inbound *)

\* Mutant: the request is read under the default limit, not the configured one.
InboundResult_default_limit(p, wire) ==
    LET vec == read_one(wire, ConfigNew(ChainId).max_request_len)
        r   == DecodeRequest(vec.vec)
    IN  IF ~vec.ok \/ ~r.ok
        THEN [ok |-> FALSE, request |-> [block_hash |-> <<>>, request |-> <<>>]]
        ELSE [ok |-> TRUE, request |-> [block_hash |-> r.block_hash, request |-> r.request]]

\* read_one bounded by max_request_len, then decode: the NodeEvent::Request.
InboundResult(p, wire) ==
    LET vec == read_one(wire, p.max_request_len)
        r   == DecodeRequest(vec.vec)
    IN  IF ~vec.ok \/ ~r.ok
        THEN [ok |-> FALSE, request |-> [block_hash |-> <<>>, request |-> <<>>]]
        ELSE [ok |-> TRUE, request |-> [block_hash |-> r.block_hash, request |-> r.request]]

upgrade_inbound(s) ==
    /\ streams[s].stage = "request_sent"
    /\ LET res == InboundResult(new_handler(streams[s].to), streams[s].wire_out)
       IN  streams' = [streams EXCEPT ![s] =
               IF res.ok
               THEN [@ EXCEPT !.stage = "request_event", !.request = res.request]
               ELSE [@ EXCEPT !.stage = "inbound_failed"]]
    /\ UNCHANGED <<finality_proof_provider, pending_events, outgoing, returned>>

-----------------------------------------------------------------------------
(* FinalityProofRequests::on_finality_request and inject_event *)

\* Whether on_finality_request reaches prove_finality.
AsksProvider(n, request) ==
    DecodeHash(request.block_hash).ok /\ finality_proof_provider[n]

\* Mutant: "no proof" is handled like a provider failure.
on_finality_request_none_fails(n, request, answer) ==
    LET block_hash == DecodeHash(request.block_hash)
    IN  IF ~block_hash.ok
        THEN [ok |-> FALSE, proof |-> <<>>]
        ELSE IF finality_proof_provider[n]
        THEN IF answer.kind # "some"
             THEN [ok |-> FALSE, proof |-> <<>>]
             ELSE [ok |-> TRUE, proof |-> answer.proof]
        ELSE [ok |-> FALSE, proof |-> <<>>]

\* Mutant: a provider failure is answered like "no proof".
on_finality_request_err_answered(n, request, answer) ==
    LET block_hash == DecodeHash(request.block_hash)
    IN  IF ~block_hash.ok
        THEN [ok |-> FALSE, proof |-> <<>>]
        ELSE IF finality_proof_provider[n]
        THEN [ok |-> TRUE,
              proof |-> IF answer.kind = "some" THEN answer.proof ELSE <<>>]
        ELSE [ok |-> FALSE, proof |-> <<>>]

\* on_finality_request, given what prove_finality answers when it is asked.
on_finality_request(n, request, answer) ==
    LET block_hash == DecodeHash(request.block_hash)
    IN  IF ~block_hash.ok
        THEN [ok |-> FALSE, proof |-> <<>>]
        ELSE IF finality_proof_provider[n]
        THEN IF answer.kind = "err"
             THEN [ok |-> FALSE, proof |-> <<>>]
             ELSE [ok |-> TRUE,
                   proof |-> IF answer.kind = "some" THEN answer.proof ELSE <<>>]
        ELSE [ok |-> FALSE, proof |-> <<>>]

\* Mutant: the write is pushed to the pool twice.
ResponseWrites_twice(s, data) ==
    {[stream |-> s, data |-> data], [stream |-> s, data |-> data, again |-> TRUE]}

\* Mutant: the write goes to the first substream, whichever the request came on.
ResponseWrites_first_stream(s, data) == {[stream |-> 1, data |-> data]}

\* The futures inject_event adds to the pool for a handled request.
ResponseWrites(s, data) == {[stream |-> s, data |-> data]}

\* Mutant: a failed request is reported to the caller as an event.
RequestFailed_reported(queue, peer, s) ==
    Append(queue, GenerateEvent([variant |-> "RequestFailed", peer |-> peer], s))

\* The queue after the error arms of inject_event: they log and push nothing.
RequestFailed(queue, peer, s) == queue

\* How many NodeEvent::Request the behaviour of n has been handed so far.
RequestsHandled(n) ==
    Cardinality({t \in DOMAIN streams : streams[t].to = n /\ streams[t].handled > 0})

\* inject_event(peer, _, NodeEvent::Request(request, stream))
inject_event_request(s) ==
    /\ streams[s].stage = "request_event"
    /\ LET n       == streams[s].to
           request == streams[s].request
           nth     == RequestsHandled(n) + 1
       IN  \E answer \in IF AsksProvider(n, request) THEN ProveOutcomes ELSE {NotAsked} :
             LET res   == on_finality_request(n, request, answer)
                 data  == Encode(EncodeResponseBytes(res.proof))
                 asked == IF answer = NotAsked THEN streams[s].asked
                          ELSE [block_hash |-> DecodeHash(request.block_hash).hash,
                                request    |-> request.request]
             IN  IF res.ok /\ data.ok
                 THEN /\ outgoing' = [outgoing EXCEPT ![n] = @ \cup ResponseWrites(s, data.buf)]
                      /\ streams' = [streams EXCEPT ![s] =
                             [@ EXCEPT !.stage = "responding", !.answer = answer,
                                       !.asked = asked, !.handled = nth,
                                       !.n_responses = @ + Cardinality(ResponseWrites(s, data.buf))]]
                      /\ UNCHANGED pending_events
                 ELSE /\ streams' = [streams EXCEPT ![s] =
                             [@ EXCEPT !.stage = "request_dropped", !.answer = answer,
                                       !.asked = asked, !.handled = nth]]
                      /\ pending_events' = [pending_events EXCEPT ![n] =
                             RequestFailed(@, streams[s].from, s)]
                      /\ UNCHANGED outgoing
    /\ UNCHANGED <<finality_proof_provider, returned>>

\* The event inject_event builds from NodeEvent::Response(response, block_hash).
ResponseEvent(peer, response, block_hash) ==
    EventResponse(peer, block_hash, response.proof)

\* Mutant: the event is pushed twice.
inject_event_response_twice(s) ==
    /\ streams[s].stage = "response_event"
    /\ LET n    == streams[s].from
           peer == streams[s].to
           node_event == streams[s].response
           ev   == ResponseEvent(peer, [proof |-> node_event.proof], node_event.block_hash)
       IN  pending_events' = [pending_events EXCEPT ![n] =
               Append(Append(@, GenerateEvent(ev, s)), GenerateEvent(ev, s))]
    /\ streams' = [streams EXCEPT ![s].stage = "event_queued"]
    /\ UNCHANGED <<finality_proof_provider, outgoing, returned>>

\* inject_event(peer, _, NodeEvent::Response(response, block_hash))
inject_event_response(s) ==
    /\ streams[s].stage = "response_event"
    /\ LET n    == streams[s].from
           peer == streams[s].to
           node_event == streams[s].response
           ev   == ResponseEvent(peer, [proof |-> node_event.proof], node_event.block_hash)
       IN  pending_events' = [pending_events EXCEPT ![n] = Append(@, GenerateEvent(ev, s))]
    /\ streams' = [streams EXCEPT ![s].stage = "event_queued"]
    /\ UNCHANGED <<finality_proof_provider, outgoing, returned>>

-----------------------------------------------------------------------------
Next ==
    \/ /\ \E n \in Peers : \E target \in SendTargets(n) :
          \E block_hash \in BlockHashes : \E request \in RequestPayloads :
              send_request(n, target, block_hash, request)
       /\ UNCHANGED poe_vars
    \/ (\E n \in Peers : poll(n)) /\ UNCHANGED poe_vars
    \/ (\E s \in DOMAIN streams : Negotiate(s)) /\ UNCHANGED poe_vars
    \/ (\E n \in Peers : \E frame \in ForeignFrames : ForeignOpen(n, frame))
           /\ UNCHANGED poe_vars
    \/ (\E s \in DOMAIN streams : ForeignWrite(s)) /\ UNCHANGED poe_vars
    \/ (\E s \in DOMAIN streams : upgrade_outbound_write(s)) /\ UNCHANGED poe_vars
    \/ (\E s \in DOMAIN streams : upgrade_inbound(s)) /\ UNCHANGED poe_vars
    \/ (\E s \in DOMAIN streams : inject_event_request(s)) /\ UNCHANGED poe_vars
    \/ (\E s \in DOMAIN streams : upgrade_outbound_read(s)) /\ UNCHANGED poe_vars
    \/ (\E s \in DOMAIN streams : inject_event_response(s)) /\ UNCHANGED poe_vars

Spec == Init /\ [][Next]_vars

\* Scheduling: the event loop keeps calling poll on every peer, the handlers
\* keep driving the upgrades, and a response that was written is read.
Fairness ==
    /\ \A n \in Peers : WF_vars(poll(n))
    /\ \A s \in 1..MaxRequests :
           /\ WF_vars(s \in DOMAIN streams /\ Negotiate(s))
           /\ WF_vars(s \in DOMAIN streams /\ upgrade_outbound_write(s))
           /\ WF_vars(s \in DOMAIN streams /\ upgrade_inbound(s))
           /\ WF_vars(s \in DOMAIN streams /\ inject_event_request(s))
           /\ WF_vars(s \in DOMAIN streams /\ streams[s].stage = "response_written"
                          /\ upgrade_outbound_read(s))
           /\ WF_vars(s \in DOMAIN streams /\ inject_event_response(s))

LiveSpec == Init /\ [][Next]_vars /\ Fairness

\* The pallet on its own: extrinsics dispatched block after block, on a node
\* whose network behaviours were constructed with a provider.
PoeSpecInit == Init /\ \A n \in Peers : finality_proof_provider[n]

PoeSpec == PoeSpecInit /\ [][PoeNext]_poe_vars

-----------------------------------------------------------------------------
(* Auxiliary definitions for the properties *)

\* Everything enqueued at n so far, in enqueue order, as long as poll is FIFO.
Enqueued(n) == returned[n] \o pending_events[n]

\* The behaviour-level events that exist at n for substream s.
EventsOf(n, s) ==
    { Enqueued(n)[i].ev : i \in { j \in 1..Len(Enqueued(n)) :
          Enqueued(n)[j].type = "GenerateEvent" /\ Enqueued(n)[j].sid = s } }

Honest(s) == streams[s].from \in Peers

-----------------------------------------------------------------------------
\* C1: every Event::Response that poll has returned carries the block hash that
\* was passed to the send_request call whose outbound upgrade produced it, also
\* when another request to the same peer is outstanding or completes first.
C1_ResponseCarriesRequestedHash ==
    \A n \in Peers : \A i \in 1..Len(returned[n]) :
        LET e == returned[n][i]
        IN  e.type = "GenerateEvent" =>
                /\ streams[e.sid].from = n
                /\ e.ev.block_hash = streams[e.sid].block_hash

\* Two requests to the same peer for distinct hashes, answered in the reverse
\* order: both events returned, the later request's first.
C1_Witness ==
    \E n \in Peers : \E i, j \in 1..Len(returned[n]) :
        /\ i < j
        /\ returned[n][i].type = "GenerateEvent"
        /\ returned[n][j].type = "GenerateEvent"
        /\ returned[n][i].sid > returned[n][j].sid
        /\ returned[n][i].ev.peer = returned[n][j].ev.peer
        /\ returned[n][i].ev.block_hash # returned[n][j].ev.block_hash
        /\ returned[n][i].ev.block_hash = streams[returned[n][i].sid].block_hash

\* C2: poll is FIFO. The sequence "returned so far, then still queued" only ever
\* grows at its tail (no reordering, loss or duplication by poll), a poll on a
\* non-empty queue returns exactly its head, and a poll returns nothing
\* (Pending) exactly when the queue is empty.
C2_PollStep ==
    \A n \in Peers :
        /\ \/ Enqueued(n)' = Enqueued(n)
           \/ \E x \in {pending_events'[n][k] : k \in 1..Len(pending_events'[n])} :
                  Enqueued(n)' = Append(Enqueued(n), x)
        /\ poll(n) /\ pending_events[n] # <<>> =>
               returned'[n] = Append(returned[n], Head(pending_events[n]))
        /\ poll(n) /\ pending_events[n] = <<>> => returned'[n] = returned[n]
        /\ returned'[n] # returned[n] => poll(n) /\ pending_events[n] # <<>>

C2_PollFifo == [][C2_PollStep]_vars

\* A peer whose polls returned two notifications and a response while another
\* response is still queued.
C2_Witness ==
    \E n \in Peers :
        /\ Len(returned[n]) = 3
        /\ returned[n][3].type = "GenerateEvent"
        /\ Len(pending_events[n]) = 1

\* C3: a handler of a behaviour without provider advertises no inbound protocol,
\* one with a provider exactly the configured identifier; on a peer without
\* provider no inbound negotiation succeeds, no NodeEvent::Request is produced
\* and no response write enters the pool.
C3_NoProviderNoInbound ==
    \A n \in Peers :
        /\ Cardinality(inbound_protocol_info(new_handler(n)))
               = IF finality_proof_provider[n] THEN 1 ELSE 0
        /\ finality_proof_provider[n] =>
               inbound_protocol_info(new_handler(n)) = {config(n).protocol}
        /\ ~finality_proof_provider[n] =>
               /\ outgoing[n] = {}
               /\ \A s \in DOMAIN streams : streams[s].to = n =>
                      /\ streams[s].stage \in {"encode_failed", "queued", "opening", "refused"}
                      /\ streams[s].wire_out = <<>>
                      /\ streams[s].n_responses = 0

\* A foreign dial refused by a peer without provider, and a dial accepted by
\* the other peer, which has one.
C3_Witness ==
    \E s, t \in DOMAIN streams :
        /\ streams[s].from = ForeignPeer
        /\ ~finality_proof_provider[streams[s].to]
        /\ streams[s].stage = "refused"
        /\ streams[t].to \in Peers
        /\ finality_proof_provider[streams[t].to]
        /\ streams[t].stage = "negotiated"

\* C5: when the provider answers "no proof", the responder still schedules a
\* response, its proof is the empty byte string, and the event the requester
\* obtains is Response{peer, block_hash: H, proof: []}, the same value as for a
\* provider that returns a proof of length zero.
EmptyAnswer(s) ==
    \/ streams[s].answer.kind = "none"
    \/ streams[s].answer.kind = "some" /\ streams[s].answer.proof = <<>>

C5_NoProofIsEmptyProof ==
    \A s \in DOMAIN streams : EmptyAnswer(s) =>
        /\ streams[s].n_responses = 1
        /\ streams[s].stage = "responding" =>
               \E f \in outgoing[streams[s].to] :
                   f.stream = s /\ DecodeResponse(f.data) = [ok |-> TRUE, proof |-> <<>>]
        /\ streams[s].stage = "response_written" =>
               DecodeResponse(read_one(streams[s].wire_in, 0).vec) = [ok |-> TRUE, proof |-> <<>>]
        /\ Honest(s) =>
               /\ EventsOf(streams[s].from, s) \subseteq
                      { [variant |-> "Response", peer |-> streams[s].to,
                         block_hash |-> streams[s].block_hash, proof |-> <<>>] }
               /\ streams[s].stage \in {"event_queued", "delivered"} =>
                      EventsOf(streams[s].from, s) # {}

\* Two requests for the same hash to the same peer, one answered "no proof" and
\* one with a zero-length proof: both events were returned and are equal.
C5_Witness ==
    \E s, t \in DOMAIN streams :
        /\ streams[s].answer.kind = "none"
        /\ streams[t].answer = [kind |-> "some", proof |-> <<>>]
        /\ streams[s].stage = "delivered" /\ streams[t].stage = "delivered"
        /\ streams[s].from = streams[t].from
        /\ EventsOf(streams[s].from, s) = EventsOf(streams[t].from, t)
        /\ EventsOf(streams[s].from, s) # {}

\* C6: a request sent to a responder without provider is refused at negotiation:
\* its upgrade never writes, and the requester never holds or returns a Response
\* event for it, nor any Response event from a peer without provider.
C6_NoProviderNoResponse ==
    /\ \A s \in DOMAIN streams :
           (Honest(s) /\ streams[s].to \in Peers /\ ~finality_proof_provider[streams[s].to]) =>
               /\ EventsOf(streams[s].from, s) = {}
               /\ streams[s].n_requests = 0
               /\ streams[s].stage \notin
                      {"negotiated", "request_sent", "response_event", "event_queued", "delivered"}
    /\ \A n \in Peers : \A i \in 1..Len(Enqueued(n)) :
           Enqueued(n)[i].type = "GenerateEvent" =>
               finality_proof_provider[Enqueued(n)[i].ev.peer]

\* The requester polled its notification out and the responder, which has no
\* provider, refused the substream.
C6_Witness ==
    \E s \in DOMAIN streams :
        /\ Honest(s) /\ streams[s].to \in Peers
        /\ ~finality_proof_provider[streams[s].to]
        /\ streams[s].stage = "refused"
        /\ Len(returned[streams[s].from]) = 1
        /\ pending_events[streams[s].from] = <<>>

\* C7: the reader enforces its own limit at read time. A request whose declared
\* length exceeds the responder's max_request_len yields no NodeEvent::Request,
\* no call of the provider and no response write, although the requester wrote
\* it; a response whose declared length exceeds the requester's
\* max_response_size yields no NodeEvent::Response and no event.
C7_SizeLimits ==
    \A s \in DOMAIN streams :
        /\ ( /\ streams[s].to \in Peers
             /\ streams[s].wire_out # <<>>
             /\ streams[s].wire_out[1] > config(streams[s].to).max_request_len ) =>
               /\ streams[s].stage \notin {"request_event", "responding", "response_written",
                                           "write_failed", "request_dropped"}
               /\ streams[s].answer = NotAsked
               /\ streams[s].n_responses = 0
               /\ streams[s].wire_in = <<>>
               /\ \A f \in outgoing[streams[s].to] : f.stream # s
        /\ ( /\ Honest(s)
             /\ streams[s].wire_in # <<>>
             /\ streams[s].wire_in[1] > config(streams[s].from).max_response_len ) =>
               /\ streams[s].stage \notin {"response_event", "event_queued", "delivered"}
               /\ EventsOf(streams[s].from, s) = {}

\* One request written in full and rejected by the responder's reader, and one
\* response written in full and rejected by the requester's reader.
C7_Witness ==
    \E s, t \in DOMAIN streams :
        /\ Honest(s) /\ streams[s].n_requests = 1
        /\ streams[s].wire_out[1] > config(streams[s].to).max_request_len
        /\ streams[s].wire_out[1] <= config(streams[s].from).max_request_len
        /\ Len(streams[s].wire_out) = 1 + streams[s].wire_out[1]
        /\ streams[s].stage = "inbound_failed"
        /\ Honest(t) /\ streams[t].wire_in # <<>>
        /\ streams[t].wire_in[1] > config(streams[t].from).max_response_len
        /\ Len(streams[t].wire_in) = 1 + streams[t].wire_in[1]
        /\ streams[t].stage = "outbound_failed"

\* C8: the only behaviour-level event that is ever queued or returned is
\* Event::Response, for a request of the peer's own that was answered; handling
\* an inbound request, failed or not, leaves nothing in the responder's queue.
C8_OnlyResponseEvents ==
    \A n \in Peers : \A i \in 1..Len(Enqueued(n)) :
        LET e == Enqueued(n)[i]
        IN  /\ e.type \in {"NotifyHandler", "GenerateEvent"}
            /\ e.type = "GenerateEvent" =>
                   /\ e.ev.variant = "Response"
                   /\ DOMAIN e.ev = {"variant", "peer", "block_hash", "proof"}
                   /\ streams[e.sid].from = n
                   /\ streams[e.sid].stage \in {"event_queued", "delivered"}
            /\ e.type = "NotifyHandler" => streams[e.sid].from = n

\* A responder that dropped one request for its undecodable hash and one on a
\* provider failure, and whose queue and poll output show nothing.
C8_Witness ==
    \E s, t \in DOMAIN streams :
        /\ streams[s].to = streams[t].to
        /\ streams[s].stage = "request_dropped" /\ streams[s].answer = NotAsked
        /\ streams[t].stage = "request_dropped" /\ streams[t].answer.kind = "err"
        /\ Enqueued(streams[s].to) = <<>>

\* C9: a send_request whose encode succeeds appends exactly one NotifyHandler for
\* the target at the tail of the caller's queue, carrying the block hash, the
\* encoded request, the configured max_response_len and protocol; everything
\* already queued, the pools and every substream stay as they were; and the call
\* is possible in every state, whatever is outstanding and whoever the target is.
C9_SendStep ==
    \A n \in Peers : \A target \in SendTargets(n) :
    \A h \in BlockHashes : \A r \in RequestPayloads :
        (send_request(n, target, h, r) /\ Encode(EncodeRequestBytes(EncodeHash(h), r)).ok) =>
            LET last == pending_events'[n][Len(pending_events'[n])]
            IN  /\ Len(pending_events'[n]) = Len(pending_events[n]) + 1
                /\ SubSeq(pending_events'[n], 1, Len(pending_events[n])) = pending_events[n]
                /\ last.type = "NotifyHandler"
                /\ last.peer_id = target
                /\ last.handler = "Any"
                /\ last.event.block_hash = h
                /\ DecodeRequest(last.event.request)
                       = [ok |-> TRUE, block_hash |-> h, request |-> r]
                /\ last.event.max_response_size = config(n).max_response_len
                /\ last.event.protocol = config(n).protocol
                /\ \A m \in Peers \ {n} : pending_events'[m] = pending_events[m]
                /\ outgoing' = outgoing
                /\ returned' = returned
                /\ \A s \in DOMAIN streams : streams'[s] = streams[s]
                /\ streams'[Len(streams')].wire_out = <<>>
                /\ streams'[Len(streams')].wire_in = <<>>

C9_SendAlwaysPossible ==
    Len(streams) < MaxRequests =>
        \A n \in Peers : \A target \in SendTargets(n) :
        \A h \in BlockHashes : \A r \in RequestPayloads :
            ENABLED send_request(n, target, h, r)

C9_SendRequestAppends == [][C9_SendStep]_vars /\ []C9_SendAlwaysPossible

\* A request to an unreachable peer queued behind an earlier notification.
C9_Witness ==
    \E n \in Peers :
        /\ Len(pending_events[n]) = 2
        /\ pending_events[n][2].type = "NotifyHandler"
        /\ pending_events[n][2].peer_id = UnreachablePeer
        /\ pending_events[n][2].event.max_response_size = config(n).max_response_len

\* C10: one request and at most one response per substream. On every substream
\* the dialer's upgrade has written at most one Request (one whole frame), the
\* listener has scheduled at most one response write, and only after the
\* request was read and the provider answered; what the listener wrote is one
\* whole frame; no substream serves two send_request calls.
C10_OneRequestOneResponse ==
    \A s \in DOMAIN streams :
        /\ streams[s].n_requests <= 1
        /\ streams[s].n_responses <= 1
        /\ Honest(s) =>
               /\ streams[s].n_requests = 0 => streams[s].wire_out = <<>>
               /\ streams[s].n_requests = 1 =>
                      /\ Len(streams[s].wire_out) = 1 + streams[s].wire_out[1]
                      /\ DecodeRequest(read_one(streams[s].wire_out, Len(streams[s].wire_out)).vec)
                             = [ok |-> TRUE, block_hash |-> streams[s].block_hash,
                                request |-> streams[s].payload]
        /\ streams[s].to \in Peers =>
               Cardinality({f \in outgoing[streams[s].to] : f.stream = s}) <= 1
        /\ streams[s].n_responses > 0 =>
               /\ streams[s].wire_out # <<>>
               /\ streams[s].answer.kind \in {"some", "none"}
               /\ InboundResult(new_handler(streams[s].to), streams[s].wire_out)
                      = [ok |-> TRUE, request |-> streams[s].request]
        /\ streams[s].wire_in # <<>> =>
               /\ streams[s].n_responses = 1
               /\ Len(streams[s].wire_in) = 1 + streams[s].wire_in[1]

\* Two requests between the same peers, each on a substream of its own, both
\* answered with one response.
C10_Witness ==
    \E s, t \in DOMAIN streams :
        /\ s # t
        /\ Honest(s) /\ streams[s].from = streams[t].from /\ streams[s].to = streams[t].to
        /\ streams[s].n_requests = 1 /\ streams[t].n_requests = 1
        /\ streams[s].n_responses = 1 /\ streams[t].n_responses = 1
        /\ streams[s].wire_in # <<>> /\ streams[t].wire_in # <<>>
        /\ streams[s].block_hash # streams[t].block_hash

\* C4: under fair scheduling, a request sent to a peer whose provider answers
\* Some(P) is eventually answered at the requester: poll returns
\* Response{peer: target, block_hash: H, proof: P}, unless the exchange leaves
\* the claim's assumptions (no provider or no connection at the target, a
\* message over a size limit, a lost connection, a provider answering otherwise).
Delivered(s) ==
    /\ streams[s].stage = "delivered"
    /\ streams[s].answer.kind = "some"
    /\ \E i \in 1..Len(returned[streams[s].from]) :
           returned[streams[s].from][i] =
               GenerateEvent([variant |-> "Response", peer |-> streams[s].to,
                              block_hash |-> streams[s].block_hash,
                              proof |-> streams[s].answer.proof], s)

OutsideAssumptions(s) ==
    \/ streams[s].to \notin Peers
    \/ ~finality_proof_provider[streams[s].to]
    \/ 1 + HashLen + 1 + (IF streams[s].payload = <<>> THEN 0 ELSE 2 + Len(streams[s].payload))
           > IF VecRemaining < config(streams[s].to).max_request_len
             THEN VecRemaining ELSE config(streams[s].to).max_request_len
    \/ streams[s].answer.kind \in {"none", "err"}
    \/ /\ streams[s].answer.kind = "some"
       /\ (IF streams[s].answer.proof = <<>> THEN 0 ELSE 2 + Len(streams[s].answer.proof))
              > IF VecRemaining < config(streams[s].from).max_response_len
                THEN VecRemaining ELSE config(streams[s].from).max_response_len
    \/ streams[s].stage \in {"disconnected", "write_failed"}

C4_RequestEventuallyAnswered ==
    \A s \in 1..MaxRequests :
        (s \in DOMAIN streams /\ Honest(s))
            ~> (s \in DOMAIN streams /\ (Delivered(s) \/ OutsideAssumptions(s)))

\* Scenario A: the request [] for a hash, the provider's proof [1,2,3], and the
\* requester's poll has returned the Response with them.
C4_Witness ==
    \E s \in DOMAIN streams :
        /\ Honest(s) /\ Delivered(s) /\ ~OutsideAssumptions(s)
        /\ streams[s].payload = <<>>
        /\ streams[s].answer.proof = <<1, 2, 3>>

-----------------------------------------------------------------------------
\* A request that was written and that the remote has finished with without
\* scheduling a response write: the inbound upgrade rejected it, its hash did
\* not decode, the provider failed, or the response did not encode; in each
\* case the remote dropped the substream.
Unanswered(s) ==
    /\ Honest(s)
    /\ streams[s].n_requests = 1
    /\ streams[s].n_responses = 0
    /\ streams[s].stage \notin {"request_sent", "request_event"}

\* C11: a request the remote cannot or will not answer produces silence at the
\* requester: no Response event and no failure event for it is ever queued at
\* or returned by the requester's poll.
C11_UnansweredIsSilent ==
    \A s \in DOMAIN streams : Unanswered(s) => EventsOf(streams[s].from, s) = {}

-----------------------------------------------------------------------------
\* Byte strings for the round trip: up to two bytes, among them the values that
\* are field keys on the wire (10, 18) and zero.
MaxBytes == 2

ByteStrings == UNION { [1..k -> {0, 10, 18}] : k \in 0..MaxBytes }

\* The proof a provider's answer stands for on the wire.
ProofOf(answer) == IF answer.kind = "some" THEN answer.proof ELSE <<>>

RoundTrip ==
    /\ \A h \in ByteStrings : \A r \in ByteStrings :
           DecodeRequest(EncodeRequestBytes(h, r))
               = [ok |-> TRUE, block_hash |-> h, request |-> r]
    /\ \A proof \in ByteStrings :
           DecodeResponse(EncodeResponseBytes(proof)) = [ok |-> TRUE, proof |-> proof]
    /\ \A h \in BlockHashes : DecodeHash(EncodeHash(h)) = [ok |-> TRUE, hash |-> h]

\* C12: decoding the encoding of Request{block_hash: h, request: r} yields
\* (h, r), decoding the encoding of Response{proof: p} yields p; the request a
\* responder's inbound upgrade yields, and the arguments its provider is
\* invoked with, are the block hash and request bytes that were passed to
\* send_request, and the Response event for a response the responder wrote
\* carries the proof bytes the provider returned.
C12_WireRoundTrip ==
    /\ RoundTrip
    /\ \A s \in DOMAIN streams : Honest(s) =>
           /\ streams[s].stage \notin {"encode_failed", "queued", "undeliverable"} =>
                  DecodeRequest(streams[s].upgrade.request)
                      = [ok |-> TRUE, block_hash |-> EncodeHash(streams[s].block_hash),
                         request |-> streams[s].payload]
           /\ streams[s].stage = "request_event" =>
                  streams[s].request = [block_hash |-> EncodeHash(streams[s].block_hash),
                                        request |-> streams[s].payload]
           /\ streams[s].answer # NotAsked =>
                  streams[s].asked = [block_hash |-> streams[s].block_hash,
                                      request |-> streams[s].payload]
           /\ streams[s].wire_in # <<>> =>
                  DecodeResponse(read_one(streams[s].wire_in, Len(streams[s].wire_in)).vec)
                      = [ok |-> TRUE, proof |-> ProofOf(streams[s].answer)]
           /\ streams[s].n_responses = 1 =>
                  /\ \A e \in EventsOf(streams[s].from, s) :
                         e.proof = ProofOf(streams[s].answer)
                  /\ streams[s].stage \in {"response_event", "event_queued", "delivered"} =>
                         streams[s].response.proof = ProofOf(streams[s].answer)

\* One provider was asked with hash <<1>> and request <<9>>, as passed to
\* send_request; another returned <<1, 2, 3>> for hash <<2>>, and the
\* requester's poll returned an event with that proof.
C12_Witness ==
    \E s, t \in DOMAIN streams :
        /\ Honest(s) /\ Honest(t)
        /\ streams[s].block_hash = <<1>> /\ streams[s].payload = <<9>>
        /\ streams[s].asked = [block_hash |-> <<1>>, request |-> <<9>>]
        /\ streams[s].answer.kind = "none"
        /\ streams[t].block_hash = <<2>>
        /\ streams[t].asked = [block_hash |-> <<2>>, request |-> <<>>]
        /\ streams[t].answer = [kind |-> "some", proof |-> <<1, 2, 3>>]
        /\ streams[t].stage = "delivered"
        /\ \E e \in EventsOf(streams[t].from, t) : e.proof = <<1, 2, 3>>

-----------------------------------------------------------------------------
\* The failures of on_finality_request the claim names, for the request read on
\* substream s and the provider's answer.
HandlingFails(s, answer) ==
    \/ ~DecodeHash(streams[s].request.block_hash).ok
    \/ ~finality_proof_provider[streams[s].to]
    \/ answer.kind = "err"

C13_Step ==
    \A s \in DOMAIN streams :
        (inject_event_request(s) /\ HandlingFails(s, streams'[s].answer)) =>
            /\ pending_events' = pending_events
            /\ outgoing' = outgoing
            /\ returned' = returned
            /\ streams'[s].stage = "request_dropped"
            /\ streams'[s].wire_in = <<>>
            /\ streams'[s].n_responses = 0
            /\ ~DecodeHash(streams[s].request.block_hash).ok =>
                   /\ streams'[s].answer = NotAsked
                   /\ streams'[s].asked = streams[s].asked

C13_Dropped ==
    /\ \A s \in DOMAIN streams :
           /\ streams[s].stage = "request_dropped" =>
                  /\ streams[s].wire_in = <<>>
                  /\ \A f \in outgoing[streams[s].to] : f.stream # s
           /\ (streams[s].answer.kind = "err" \/ streams[s].n_responses = 0) =>
                  streams[s].wire_in = <<>>
    /\ \A n \in Peers : \A h \in BlockHashes \cup {<<>>} : \A r \in RequestPayloads :
       \A answer \in ProveOutcomes \cup {NotAsked} :
           LET request == [block_hash |-> h, request |-> r]
           IN  ( \/ ~DecodeHash(h).ok
                 \/ ~finality_proof_provider[n]
                 \/ answer.kind = "err" ) =>
                   ~on_finality_request(n, request, answer).ok

\* C13: when handling an inbound request fails (the hash does not decode, the
\* provider fails, or there is no provider), inject_event schedules no response
\* write, leaves the pending event queue and the pool as they were, and nothing
\* is ever written on the substream; when the hash does not decode, the
\* provider is not invoked.
C13_FailedRequestDropped == [][C13_Step]_vars /\ []C13_Dropped

\* A responder that dropped a request for its undecodable hash without asking
\* the provider and dropped another on a provider failure while a response
\* write of neither is in its pool.
C13_Witness ==
    \E s, t \in DOMAIN streams :
        /\ streams[s].to = streams[t].to
        /\ streams[s].stage = "request_dropped"
        /\ ~DecodeHash(streams[s].request.block_hash).ok
        /\ streams[s].answer = NotAsked
        /\ streams[t].stage = "request_dropped"
        /\ streams[t].answer.kind = "err"
        /\ streams[s].wire_in = <<>> /\ streams[t].wire_in = <<>>
        /\ outgoing[streams[s].to] = {}
        /\ pending_events[streams[s].to] = <<>>

-----------------------------------------------------------------------------
\* The request read on substream s is handled successfully with the provider's
\* answer: the hash decodes, a provider exists and does not fail, and the
\* response encodes.
HandlingSucceeds(s, answer) ==
    /\ DecodeHash(streams[s].request.block_hash).ok
    /\ finality_proof_provider[streams[s].to]
    /\ answer.kind \in {"some", "none"}
    /\ Encode(EncodeResponseBytes(ProofOf(answer))).ok

C14_Step ==
    /\ \A s \in DOMAIN streams :
           (inject_event_request(s) /\ HandlingSucceeds(s, streams'[s].answer)) =>
               LET n == streams[s].to
                   f == [stream |-> s,
                         data   |-> EncodeResponseBytes(ProofOf(streams'[s].answer))]
               IN  /\ f \notin outgoing[n]
                   /\ outgoing' = [outgoing EXCEPT ![n] = @ \cup {f}]
                   /\ pending_events' = pending_events
                   /\ returned' = returned
                   /\ streams'[s].stage = "responding"
                   /\ streams'[s].wire_in = <<>>
    /\ outgoing' # outgoing =>
           /\ pending_events' = pending_events
           /\ returned' = returned
    /\ \A s \in DOMAIN streams :
           (streams[s].stage = "responding"
                /\ streams'[s].stage \in {"response_written", "write_failed"}) =>
               /\ \E n \in Peers : poll(n) /\ n = streams[s].to /\ pending_events[n] = <<>>
               /\ pending_events' = pending_events
               /\ returned' = returned

\* No entry of a responder's queue or poll output belongs to a substream it
\* serves.
C14_NoEventForWrite ==
    \A s \in DOMAIN streams : streams[s].to \in Peers =>
        \A i \in 1..Len(Enqueued(streams[s].to)) : Enqueued(streams[s].to)[i].sid # s

\* C14: a successfully handled inbound request adds exactly one write to the
\* outgoing pool, for the substream the request came on and with the encoded
\* response, and leaves the pending event queue unchanged; scheduling a write
\* and completing one, successfully or not, produce no event at poll.
C14_OneWriteNoEvent == [][C14_Step]_vars /\ []C14_NoEventForWrite

\* A responder with one response written, one response write failed, and
\* nothing queued or returned by its poll.
C14_Witness ==
    \E s, t \in DOMAIN streams :
        /\ streams[s].to = streams[t].to
        /\ streams[s].stage = "response_written"
        /\ streams[s].wire_in = write_one(EncodeResponseBytes(ProofOf(streams[s].answer)))
        /\ streams[t].stage = "write_failed"
        /\ outgoing[streams[s].to] = {}
        /\ Enqueued(streams[s].to) = <<>>

-----------------------------------------------------------------------------
\* A call of poll at n can complete a response write of n's pool.
CanDrain(n) == ENABLED (poll(n) /\ outgoing'[n] # outgoing[n])

\* C15 as claimed: every call of poll polls the response writes in flight, so
\* whenever a write is in the pool the next poll call can complete it.
C15_EveryPollDrains ==
    \A n \in Peers : outgoing[n] # {} => CanDrain(n)

C15_Step ==
    \A n \in Peers :
        /\ (poll(n) /\ pending_events[n] # <<>>) => outgoing' = outgoing
        /\ outgoing'[n] # outgoing[n] /\ outgoing'[n] \subseteq outgoing[n] =>
               /\ poll(n) /\ pending_events[n] = <<>>
               /\ pending_events' = pending_events
               /\ returned' = returned
               /\ \A m \in Peers \ {n} : outgoing'[m] = outgoing[m]
               /\ \A f \in outgoing[n] \ outgoing'[n] :
                      streams'[f.stream].stage \in {"response_written", "write_failed"}

C15_IdlePollCanDrain ==
    \A n \in Peers :
        /\ (outgoing[n] # {} /\ pending_events[n] = <<>>) => CanDrain(n)
        /\ pending_events[n] # <<>> => ~CanDrain(n)

\* C15, amended: a call of poll that finds the pending event queue empty polls
\* the response writes in the pool and removes the completed ones, discarding
\* their outcomes; a call that returns a queued event leaves the pool as it
\* was, so a scheduled write makes progress on the next poll call that finds
\* the queue empty.
C15_PollDrainsWhenQueueEmpty == [][C15_Step]_vars /\ []C15_IdlePollCanDrain

\* A peer whose poll has returned a queued event and, on a call that found the
\* queue empty, has completed a response write.
C15_Witness ==
    \E n \in Peers : \E s \in DOMAIN streams :
        /\ streams[s].to = n
        /\ streams[s].stage = "response_written"
        /\ returned[n] # <<>>
        /\ pending_events[n] = <<>>
        /\ outgoing[n] = {}

-----------------------------------------------------------------------------
\* A call of poll at n can complete the write f alone, leaving every other
\* write of the pool in flight.
CanCompleteAlone(n, f) ==
    ENABLED ( /\ poll(n)
              /\ outgoing'[n] = outgoing[n] \ {f}
              /\ streams'[f.stream].stage = "response_written" )

\* C16: the pool imposes no order on the response writes in flight. Whenever a
\* peer's poll reaches the pool, each write in it can be the next to complete,
\* whatever else is in the pool and whenever it was pushed; so the response to
\* a request handled second can be written in full while the response to the
\* request handled first is still in flight.
C16_PoolUnordered ==
    \A n \in Peers : pending_events[n] = <<>> =>
        \A f \in outgoing[n] : CanCompleteAlone(n, f)

\* Requests R1 and R2 handled by the same peer in this order, the response to
\* R2 written in full, the write for R1 still in the pool.
C16_Witness ==
    \E n \in Peers : \E r1, r2 \in DOMAIN streams :
        /\ streams[r1].to = n /\ streams[r2].to = n
        /\ streams[r1].handled = 1 /\ streams[r2].handled = 2
        /\ streams[r1].stage = "responding"
        /\ \E f \in outgoing[n] : f.stream = r1
        /\ streams[r2].stage = "response_written"
        /\ streams[r2].wire_in = write_one(EncodeResponseBytes(ProofOf(streams[r2].answer)))

-----------------------------------------------------------------------------
C17_Step ==
    /\ \A n \in Peers : \A target \in SendTargets(n) :
       \A h \in BlockHashes : \A r \in RequestPayloads :
           (send_request(n, target, h, r) /\ ~Encode(EncodeRequestBytes(EncodeHash(h), r)).ok) =>
               /\ pending_events' = pending_events
               /\ outgoing' = outgoing
               /\ returned' = returned
               /\ \A s \in DOMAIN streams : streams'[s] = streams[s]
               /\ streams'[Len(streams')].stage = "encode_failed"
    /\ \A s \in DOMAIN streams :
           streams[s].stage = "encode_failed" => streams'[s] = streams[s]

C17_NothingForFailedCall ==
    /\ \A s \in DOMAIN streams :
           streams[s].stage = "encode_failed" =>
               /\ ~Encode(EncodeRequestBytes(EncodeHash(streams[s].block_hash),
                                             streams[s].payload)).ok
               /\ \A n \in Peers : \A i \in 1..Len(Enqueued(n)) : Enqueued(n)[i].sid # s
               /\ \A n \in Peers : \A f \in outgoing[n] : f.stream # s
               /\ streams[s].wire_out = <<>>
    /\ Len(streams) < MaxRequests =>
           \A n \in Peers : \A target \in SendTargets(n) :
           \A h \in BlockHashes : \A r \in RequestPayloads :
               ~Encode(EncodeRequestBytes(EncodeHash(h), r)).ok =>
                   ENABLED send_request(n, target, h, r)

\* C17: a send_request whose encode fails returns normally, enqueues nothing
\* and leaves the pending event queue and the pool as they were; no poll ever
\* returns a notification or a Response event for that call.
C17_EncodeFailureSwallowed == [][C17_Step]_vars /\ []C17_NothingForFailedCall

\* A call whose encode failed, followed by a call of the same peer that went
\* through and whose notification poll has returned.
C17_Witness ==
    \E s, t \in DOMAIN streams :
        /\ s < t
        /\ streams[s].stage = "encode_failed"
        /\ streams[t].from = streams[s].from
        /\ streams[t].stage = "opening"
        /\ Len(returned[streams[s].from]) = 1
        /\ returned[streams[s].from][1].sid = t
        /\ pending_events[streams[s].from] = <<>>

-----------------------------------------------------------------------------
\* The positions of the Response events among what n's poll has returned and
\* what is still queued at n.
ResponseEntries(n) ==
    {i \in 1..Len(Enqueued(n)) : Enqueued(n)[i].type = "GenerateEvent"}

\* The send_request calls made at n so far.
SendRequestCalls(n) == {s \in DOMAIN streams : streams[s].from = n}

C20_Step ==
    \A s \in DOMAIN streams :
        /\ inject_event_response(s) =>
               /\ Len(pending_events'[streams[s].from]) = Len(pending_events[streams[s].from]) + 1
               /\ \A n \in Peers \ {streams[s].from} : pending_events'[n] = pending_events[n]
        /\ streams[s].stage \in {"response_event", "event_queued", "delivered",
                                  "outbound_failed", "disconnected"} =>
               /\ streams'[s].stage # "response_event" \/ streams'[s] = streams[s]
               /\ streams[s].stage # "response_event" => streams'[s].response = streams[s].response

C20_AtMostOneAnswer ==
    \A n \in Peers :
        /\ Cardinality(ResponseEntries(n)) <= Cardinality(SendRequestCalls(n))
        /\ \A s \in SendRequestCalls(n) :
               Cardinality({i \in ResponseEntries(n) : Enqueued(n)[i].sid = s}) <= 1
        /\ \A i \in ResponseEntries(n) :
               /\ Enqueued(n)[i].sid \in SendRequestCalls(n)
               /\ \E s \in SendRequestCalls(n) :
                      /\ streams[s].to = Enqueued(n)[i].ev.peer
                      /\ streams[s].block_hash = Enqueued(n)[i].ev.block_hash
                      /\ streams[s].n_requests = 1

\* C20: no request is answered twice at the requester. An outbound upgrade
\* yields at most one NodeEvent::Response, inject_event queues exactly one
\* Event::Response for it, so the Response events returned by poll and still
\* queued are at most as many as the send_request calls made so far, at most
\* one per call, each for a peer and hash that were requested.
C20_NoRequestAnsweredTwice == [][C20_Step]_vars /\ []C20_AtMostOneAnswer

\* Two requests of one peer for the same hash to the same target, each answered
\* once: two Response events, one returned by poll and one still queued.
C20_Witness ==
    \E n \in Peers : \E s, t \in SendRequestCalls(n) :
        /\ s # t
        /\ streams[s].to = streams[t].to
        /\ streams[s].block_hash = streams[t].block_hash
        /\ Cardinality(ResponseEntries(n)) = 2
        /\ streams[s].stage = "delivered"
        /\ streams[t].stage = "event_queued"
        /\ streams[s].n_responses = 1 /\ streams[t].n_responses = 1

-----------------------------------------------------------------------------
(* Proof-of-existence pallet: properties, checked under PoeSpec *)

\* The entries stored under a key.
EntriesOf(map, key) == {e \in map : e.key = key}

\* A dispatchable returned `error`, wrote nothing and deposited nothing.
FailedWith(error) ==
    /\ dispatch_result' = error
    /\ Proofs' = Proofs
    /\ events' = events

C18_Step ==
    /\ \A sender \in Accounts : \A proof \in ProofInputs :
           revoke_claim(sender, proof) =>
               IF EntriesOf(Proofs, proof) = {} THEN FailedWith("NoSuchProof")
               ELSE IF \A e \in EntriesOf(Proofs, proof) : e.value[1] # sender
               THEN FailedWith("NotProofOwner")
               ELSE /\ dispatch_result' = "Ok"
                    /\ EntriesOf(Proofs', proof) = {}
                    /\ Proofs' = Proofs \ EntriesOf(Proofs, proof)
                    /\ events' = Append(events, <<"ClaimRevoked", sender, proof>>)
    /\ \A sender \in Accounts : \A proof \in ProofInputs : \A receiver \in Accounts :
           transfer_claim(sender, proof, receiver) =>
               IF EntriesOf(Proofs, proof) = {} THEN FailedWith("NoSuchProof")
               ELSE IF \A e \in EntriesOf(Proofs, proof) : e.value[1] # sender
               THEN FailedWith("NotProofOwner")
               ELSE /\ dispatch_result' = "Ok"
                    /\ EntriesOf(Proofs', proof)
                           = {[key |-> proof, value |-> <<receiver, block_number>>]}
                    /\ Proofs' \ EntriesOf(Proofs', proof) = Proofs \ EntriesOf(Proofs, proof)
                    /\ events' = Append(events,
                           <<"ClaimTransferred", sender, proof, receiver>>)
    /\ \A e \in Proofs : e \notin Proofs' =>
           /\ dispatch_result' = "Ok"
           /\ Len(events') = Len(events) + 1
           /\ events'[Len(events')][1] \in {"ClaimRevoked", "ClaimTransferred"}
           /\ events'[Len(events')][2] = e.value[1]
           /\ events'[Len(events')][3] = e.key

\* C18: a stored claim is modified only by its owner. revoke_claim and
\* transfer_claim fail with NoSuchProof when the proof is not stored and with
\* NotProofOwner when the signed sender is not the stored owner, leaving Proofs
\* unchanged and depositing no event; on success revoke_claim removes the entry
\* and transfer_claim replaces the owner by the receiver, with the current
\* block number, while the proof stays claimed.
C18_OnlyOwnerModifies == [][C18_Step]_poe_vars

\* alice's claim was transferred to bob in block 2, and alice's next call on
\* it was refused with NotProofOwner.
C18_Witness ==
    /\ dispatch_result = "NotProofOwner"
    /\ block_number = 2
    /\ Proofs = {[key |-> <<2>>, value |-> <<"bob", 2>>]}
    /\ events = << <<"ClaimTransferred", "alice", <<2>>, "bob">> >>

C19_Step ==
    \A sender \in Accounts : \A proof \in ProofInputs :
        create_claim(sender, proof) =>
            IF Len(proof) > 9 THEN FailedWith("ProofTooLarge")
            ELSE IF EntriesOf(Proofs, proof) # {} THEN FailedWith("ProofAlreadyClaimed")
            ELSE /\ dispatch_result' = "Ok"
                 /\ Proofs' = Proofs \cup {[key |-> proof, value |-> <<sender, block_number>>]}
                 /\ events' = Append(events, <<"ClaimCreated", sender, proof>>)

C19_Keys ==
    \A e \in Proofs :
        /\ Len(e.key) <= 9
        /\ EntriesOf(Proofs, e.key) = {e}
        /\ e.value[1] \in Accounts
        /\ e.value[2] \in 1..block_number

\* C19: create_claim fails with ProofTooLarge on a proof longer than 9 bytes and
\* with ProofAlreadyClaimed on a proof that is a key of Proofs, leaving Proofs
\* unchanged; otherwise it inserts (sender, current block number) under the
\* proof. After any sequence of create_claim, revoke_claim and transfer_claim
\* calls every key of Proofs has length at most 9 and exactly one owner.
C19_CreateNeverOverwrites == [][C19_Step]_poe_vars /\ []C19_Keys

\* A proof of 9 bytes is stored for alice, a proof of 10 bytes was refused, and
\* the claim stored in block 1 has not been touched in block 2.
C19_Witness ==
    /\ dispatch_result = "ProofTooLarge"
    /\ block_number = 2
    /\ [key |-> Bytes(9, 1), value |-> <<"alice", 1>>] \in Proofs
    /\ \A e \in Proofs : Len(e.key) <= 9

====
